---- MODULE Spec2Model ----
(***************************************************************************)
(* NoLossTokenizer (src/midi_tokenizers/no_loss_tokenizer.py): vocabulary  *)
(* construction, velocity quantization, the greedy time-delta             *)
(* decomposition, tokenize, fix_token_sequences and untokenize.           *)
(*                                                                         *)
(* Times are whole numbers of ticks, TicksPerSecond ticks to the second;   *)
(* the arithmetic on them is exact.  A token is a pair <<class, number>>:  *)
(* <<"NOTE_ON", 60>> is "NOTE_ON_60", <<"VELOCITY", 3>> is "VELOCITY_3",    *)
(* <<"T", 2>> is "2T" and <<"CLS", 0>> is "<CLS>".                          *)
(***************************************************************************)
EXTENDS Integers, Sequences, FiniteSets

\* ---------------------------------------------------------------- bounds
\* ticks in one second (the literal 1 of `while dt < 1`)
TicksPerSecond == 32
\* eps is drawn among the multiples of EpsGrain ticks
EpsGrain == 4
\* n_velocity_bins is drawn up to MaxBins
MaxBins == 5
\* longest token list handed to fix_token_sequences / untokenize
MaxTokens == 4
\* longest list of note records handed to tokenize
MaxNotes == 2

\* ------------------------------------------------------ program constants
PitchBegin == 21
PitchEnd == 109
MaxVelocity == 127
PressedSize == 110
NotPressed == -1

VARIABLES
    \* the tokenizer object
    eps, n_velocity_bins, time_vocab, max_time_value,
    velocity_bin_edges, bin_to_velocity,
    \* __init__ / _time_vocab in progress
    ctor_pc, tv_dt,
    \* quantize_frame and the decoder lookup on one velocity
    velocity, velocity_bin, velocity_out, vel_pc,
    \* tokenize_time_distance
    dt, filling_dt, current_step, time_tokens, ttd_pc,
    \* tokenize
    notes, note_events, event_it, tokens, previous_time, tok_pc,
    \* fix_token_sequences / untokenize
    fixed, refixed, note_on_events, note_off_events, decoded, un_pc

selfVars == <<eps, n_velocity_bins, time_vocab, max_time_value,
              velocity_bin_edges, bin_to_velocity>>
ctorVars == <<ctor_pc, tv_dt>>
velVars == <<velocity, velocity_bin, velocity_out, vel_pc>>
ttdVars == <<dt, filling_dt, current_step, time_tokens, ttd_pc>>
tokVars == <<notes, note_events, event_it, tokens, previous_time, tok_pc>>
unVars == <<fixed, refixed, note_on_events, note_off_events, decoded, un_pc>>
vars == <<selfVars, ctorVars, velVars, ttdVars, tokVars, unVars>>

\* ----------------------------------------------------------------- tokens
NoteOn(pitch) == <<"NOTE_ON", pitch>>
NoteOff(pitch) == <<"NOTE_OFF", pitch>>
VelocityToken(vel) == <<"VELOCITY", vel>>
TimeToken(dt_it) == <<"T", dt_it>>
Cls == <<"CLS", 0>>

\* "VELOCITY" in token, "NOTE_ON" in token, "NOTE_OFF" in token, re.search(".T$", token)
IsVelocity(token) == token[1] = "VELOCITY"
IsNoteOn(token) == token[1] = "NOTE_ON"
IsNoteOff(token) == token[1] = "NOTE_OFF"
IsTime(token) == token[1] = "T"

Pitches == PitchBegin .. (PitchEnd - 1)

\* the lookup tables of _build_vocab
TokenToPitch(token) == token[2]
TokenToVelocityBin(token) == token[2]
PitchToOnToken(pitch) == NoteOn(pitch)
PitchToOffToken(pitch) == NoteOff(pitch)
VelocityBinToToken(vel) == VelocityToken(vel)

\* self.vocab as a set, for n velocity bins and a ladder of k rungs
Vocab(n, k) ==
    {Cls} \cup {NoteOn(p) : p \in Pitches} \cup {NoteOff(p) : p \in Pitches}
          \cup {VelocityToken(b) : b \in 0 .. (n - 1)}
          \cup {TimeToken(i) : i \in 1 .. k}

\* ------------------------------------------------------------- _time_vocab
\* the ladder: time_vocab[k] is the duration of token kT (token_to_dt)
RECURSIVE TimeVocabLoop(_, _)
TimeVocabLoop(d, acc) ==
    IF d < TicksPerSecond THEN TimeVocabLoop(d * 2, Append(acc, d)) ELSE acc

TimeVocab(e) == TimeVocabLoop(e, <<>>)

\* dt_to_token: the rung whose duration is exactly step, 0 for a KeyError
DtToToken(ladder, step) ==
    IF \E k \in 1 .. Len(ladder) : ladder[k] = step
    THEN CHOOSE k \in 1 .. Len(ladder) : ladder[k] = step
    ELSE 0

\* ------------------------------------------------------ velocity quantizer
\* np.linspace(0, 127, num=n, endpoint=True).astype(int), n >= 0
Linspace(n) ==
    IF n = 0 THEN <<>>
    ELSE IF n = 1 THEN <<0>>
    ELSE [i \in 1 .. n |-> (MaxVelocity * (i - 1)) \div (n - 1)]

BuildVelocityDecoder(edges) ==
    IF Len(edges) < 2 THEN <<>>
    ELSE [it \in 1 .. (Len(edges) - 1) |-> (edges[it] + edges[it + 1]) \div 2]

\* np.digitize(v, edges) - 1: the number of edges not above v, less one
Digitize(v, edges) == Cardinality({i \in 1 .. Len(edges) : edges[i] <= v})

QuantizeVelocity(v, edges) == Digitize(v, edges) - 1

\* a Python list lookup l[b]: IndexError outside -len .. len-1
ListIndexOk(b, l) == -Len(l) <= b /\ b < Len(l)
ListGet(b, l) == IF b >= 0 THEN l[b + 1] ELSE l[Len(l) + b + 1]

\* ------------------------------------------------------------ idle parts
IdleCtor == ctor_pc = "constructed" /\ tv_dt = 0
IdleVel == velocity = 0 /\ velocity_bin = 0 /\ velocity_out = 0 /\ vel_pc = "idle"
IdleTtd ==
    /\ dt = 0 /\ filling_dt = 0 /\ current_step = 0
    /\ time_tokens = <<>> /\ ttd_pc = "idle"
IdleTok ==
    /\ notes = <<>> /\ note_events = <<>> /\ event_it = 0
    /\ tokens = <<>> /\ previous_time = 0 /\ tok_pc = "idle"
IdleUn ==
    /\ fixed = <<>> /\ refixed = <<>> /\ note_on_events = <<>>
    /\ note_off_events = <<>> /\ decoded = <<>> /\ un_pc = "idle"

\* the object __init__ leaves behind for eps = e, n_velocity_bins = n
Constructed(e, n) ==
    /\ eps = e
    /\ n_velocity_bins = n
    /\ time_vocab = TimeVocab(e)
    /\ max_time_value = time_vocab[Len(time_vocab)]
    /\ velocity_bin_edges = Linspace(n)
    /\ bin_to_velocity = BuildVelocityDecoder(velocity_bin_edges)

\* eps values that build a ladder: 0 < eps < 1
ValidEps == {EpsGrain * k : k \in 1 .. ((TicksPerSecond - 1) \div EpsGrain)}

\* ------------------------------------------------------------- __init__
\* eps and n_velocity_bins as any caller may pass them
CtorEps == {EpsGrain * k : k \in -1 .. ((TicksPerSecond \div EpsGrain) + 1)}
CtorBins == -1 .. MaxBins
\* iterations of the ladder loop followed before the run is left alone
MaxLadder == 6

InitCtor ==
    /\ eps \in CtorEps
    /\ n_velocity_bins \in CtorBins
    /\ time_vocab = <<>>
    /\ max_time_value = 0
    /\ velocity_bin_edges = <<>>
    /\ bin_to_velocity = <<>>
    /\ ctor_pc = "time_vocab"
    /\ tv_dt = eps
    /\ IdleVel /\ IdleTtd /\ IdleTok /\ IdleUn

\* one iteration of `while dt < 1` in _time_vocab
TimeVocabStep ==
    /\ ctor_pc = "time_vocab"
    /\ tv_dt < TicksPerSecond
    /\ Len(time_vocab) < MaxLadder
    /\ time_vocab' = Append(time_vocab, tv_dt)
    /\ tv_dt' = tv_dt * 2
    /\ UNCHANGED <<eps, n_velocity_bins, max_time_value, velocity_bin_edges,
                   bin_to_velocity, ctor_pc>>
    /\ UNCHANGED <<velVars, ttdVars, tokVars, unVars>>

\* the loop ends; _build_vocab reads time_vocab[-1]
TimeVocabReturn ==
    /\ ctor_pc = "time_vocab"
    /\ tv_dt >= TicksPerSecond
    /\ IF time_vocab = <<>>
       THEN ctor_pc' = "IndexError" /\ UNCHANGED max_time_value
       ELSE ctor_pc' = "velocity" /\ max_time_value' = time_vocab[Len(time_vocab)]
    /\ UNCHANGED <<eps, n_velocity_bins, time_vocab, velocity_bin_edges,
                   bin_to_velocity, tv_dt>>
    /\ UNCHANGED <<velVars, ttdVars, tokVars, unVars>>

\* np.linspace (ValueError for a negative num) and _build_velocity_decoder
CtorVelocity ==
    /\ ctor_pc = "velocity"
    /\ IF n_velocity_bins < 0
       THEN ctor_pc' = "ValueError" /\ UNCHANGED <<velocity_bin_edges, bin_to_velocity>>
       ELSE /\ velocity_bin_edges' = Linspace(n_velocity_bins)
            /\ bin_to_velocity' = BuildVelocityDecoder(velocity_bin_edges')
            /\ ctor_pc' = "constructed"
    /\ UNCHANGED <<eps, n_velocity_bins, time_vocab, max_time_value, tv_dt>>
    /\ UNCHANGED <<velVars, ttdVars, tokVars, unVars>>

NextCtor == TimeVocabStep \/ TimeVocabReturn \/ CtorVelocity

SpecCtor == InitCtor /\ [][NextCtor]_vars

\* ----------------------------------------- quantize_frame / bin_to_velocity
DefaultBins == 128
VelBins == (1 .. MaxBins) \cup {DefaultBins}

InitVel ==
    /\ \E n \in VelBins : Constructed(EpsGrain, n)
    /\ IdleCtor
    /\ velocity \in 0 .. MaxVelocity
    /\ velocity_bin = 0 /\ velocity_out = 0 /\ vel_pc = "input"
    /\ IdleTtd /\ IdleTok /\ IdleUn

\* quantize_frame on one velocity
QuantizeFrame ==
    /\ vel_pc = "input"
    /\ velocity_bin' = QuantizeVelocity(velocity, velocity_bin_edges)
    /\ vel_pc' = "quantized"
    /\ UNCHANGED <<velocity, velocity_out>>
    /\ UNCHANGED <<selfVars, ctorVars, ttdVars, tokVars, unVars>>

\* untokenize's lookup self.bin_to_velocity[current_velocity_bin]
DecodeVelocity ==
    /\ vel_pc = "quantized"
    /\ IF ListIndexOk(velocity_bin, bin_to_velocity)
       THEN velocity_out' = ListGet(velocity_bin, bin_to_velocity) /\ vel_pc' = "decoded"
       ELSE UNCHANGED velocity_out /\ vel_pc' = "IndexError"
    /\ UNCHANGED <<velocity, velocity_bin>>
    /\ UNCHANGED <<selfVars, ctorVars, ttdVars, tokVars, unVars>>

NextVel == QuantizeFrame \/ DecodeVelocity

SpecVel == InitVel /\ [][NextVel]_vars

\* ------------------------------------------------- tokenize_time_distance
Abs(x) == IF x < 0 THEN -x ELSE x

\* `abs(dt - filling_dt) < self.eps`
GapFilled == Abs(dt - filling_dt) < eps

\* `filling_dt + current_step - dt > self.eps`
Overshoots == filling_dt + current_step - dt > eps

\* entering tokenize_time_distance(d)
TtdEnter(d) ==
    /\ dt' = d
    /\ filling_dt' = 0
    /\ current_step' = max_time_value
    /\ time_tokens' = <<>>
    /\ ttd_pc' = "loop"

TimeEps == ValidEps
TimeBins == {2}
TimeGaps == 0 .. (2 * TicksPerSecond - 1)

InitTime ==
    /\ \E e \in TimeEps, n \in TimeBins : Constructed(e, n)
    /\ IdleCtor /\ IdleVel /\ IdleTok /\ IdleUn
    /\ dt \in TimeGaps
    /\ filling_dt = 0
    /\ current_step = max_time_value
    /\ time_tokens = <<>>
    /\ ttd_pc = "loop"

\* the gap is filled: break, return time_tokens
TtdBreak ==
    /\ ttd_pc = "loop"
    /\ GapFilled
    /\ ttd_pc' = "return"
    /\ UNCHANGED <<dt, filling_dt, current_step, time_tokens>>
    /\ UNCHANGED <<selfVars, ctorVars, velVars, tokVars, unVars>>

\* current_step /= 2.  The step is followed while its half is a whole number of
\* ticks; past that the arithmetic of the code would go on halving.
TtdHalve ==
    /\ ttd_pc = "loop"
    /\ ~GapFilled
    /\ Overshoots
    /\ current_step % 2 = 0
    /\ current_step' = current_step \div 2
    /\ UNCHANGED <<dt, filling_dt, time_tokens, ttd_pc>>
    /\ UNCHANGED <<selfVars, ctorVars, velVars, tokVars, unVars>>

\* time_tokens.append(self.dt_to_token[current_step]); filling_dt += current_step
TtdEmit ==
    /\ ttd_pc = "loop"
    /\ ~GapFilled
    /\ ~Overshoots
    /\ IF DtToToken(time_vocab, current_step) # 0
       THEN /\ time_tokens' = Append(time_tokens, TimeToken(DtToToken(time_vocab, current_step)))
            /\ filling_dt' = filling_dt + current_step
            /\ UNCHANGED ttd_pc
       ELSE /\ ttd_pc' = "KeyError"
            /\ UNCHANGED <<time_tokens, filling_dt>>
    /\ UNCHANGED <<dt, current_step>>
    /\ UNCHANGED <<selfVars, ctorVars, velVars, tokVars, unVars>>

NextTime == TtdBreak \/ TtdHalve \/ TtdEmit

SpecTime == InitTime /\ [][NextTime]_vars

\* --------------------------------------------------------------- sorting
\* insert x behind every element whose key is not above x's: a stable sort
RECURSIVE InsertByKey(_, _, _)
InsertByKey(x, sorted, key) ==
    IF sorted = <<>> THEN <<x>>
    ELSE IF sorted[Len(sorted)][key] <= x[key] THEN Append(sorted, x)
    ELSE Append(InsertByKey(x, SubSeq(sorted, 1, Len(sorted) - 1), key), sorted[Len(sorted)])

RECURSIVE StableSortFrom(_, _, _, _)
StableSortFrom(list, i, acc, key) ==
    IF i > Len(list) THEN acc
    ELSE StableSortFrom(list, i + 1, InsertByKey(list[i], acc, key), key)

\* sorted(list, key=...) and sort_values(by=key, kind="stable") on the field key
StableSort(list, key) == StableSortFrom(list, 1, <<>>, key)

\* ------------------------------------------------------- _notes_to_events
\* quantize_frame: every note record gets its velocity_bin column
QuantizeNotes(frame, edges) ==
    [i \in 1 .. Len(frame) |->
        [pitch |-> frame[i].pitch, start |-> frame[i].start, end |-> frame[i].end,
         velocity |-> frame[i].velocity,
         velocity_bin |-> QuantizeVelocity(frame[i].velocity, edges)]]

NoteOnEvents(frame) ==
    [i \in 1 .. Len(frame) |->
        [time |-> frame[i].start, pitch |-> frame[i].pitch,
         velocity_bin |-> frame[i].velocity_bin, event |-> "NOTE_ON"]]

NoteOffEvents(frame) ==
    [i \in 1 .. Len(frame) |->
        [time |-> frame[i].end, pitch |-> frame[i].pitch,
         velocity_bin |-> frame[i].velocity_bin, event |-> "NOTE_OFF"]]

\* the two lists joined the other way round
JoinEventsOnFirst(off_events, on_events) == on_events \o off_events

\* note_events = note_off_events + note_on_events
JoinEvents(off_events, on_events) == off_events \o on_events

\* sorted(note_events, key=lambda event: event["time"])
SortEvents(events) == StableSort(events, "time")

NotesToEvents(frame) == SortEvents(JoinEvents(NoteOffEvents(frame), NoteOnEvents(frame)))

\* ---------------------------------------------------------------- tokenize
\* an event appended without its velocity token
EventTokensNoVelocity(event) ==
    <<IF event.event = "NOTE_ON" THEN PitchToOnToken(event.pitch)
                                 ELSE PitchToOffToken(event.pitch)>>

\* the velocity token and the on/off token appended for one event
EventTokens(event) ==
    <<VelocityBinToToken(event.velocity_bin),
      IF event.event = "NOTE_ON" THEN PitchToOnToken(event.pitch)
                                 ELSE PitchToOffToken(event.pitch)>>

\* `previous_time = current_event["time"]`
NextPreviousTime(event) == event.time

\* the note records handed to tokenize
TokEps == {EpsGrain, 2 * EpsGrain}
TokBins == {3}
TokPitches == {60, 61}
TokTimes == {0, 6, 26}
TokVelocities == {0, 100}

NoteRecords ==
    {r \in [pitch : TokPitches, start : TokTimes, end : TokTimes, velocity : TokVelocities] :
        r.start <= r.end}

RECURSIVE SeqsUpTo(_, _)
SeqsUpTo(S, n) ==
    IF n = 0 THEN {<<>>}
    ELSE LET shorter == SeqsUpTo(S, n - 1)
         IN  shorter \cup {Append(q, x) : q \in {r \in shorter : Len(r) = n - 1}, x \in S}

InitTok ==
    /\ \E e \in TokEps, n \in TokBins : Constructed(e, n)
    /\ IdleCtor /\ IdleVel /\ IdleTtd /\ IdleUn
    /\ notes \in SeqsUpTo(NoteRecords, MaxNotes)
    /\ note_events = <<>>
    /\ event_it = 0
    /\ tokens = <<>>
    /\ previous_time = 0
    /\ tok_pc = "start"

\* quantize_frame, tokens = [], previous_time = 0, _notes_to_events
TokStart ==
    /\ tok_pc = "start"
    /\ notes' = QuantizeNotes(notes, velocity_bin_edges)
    /\ note_events' = NotesToEvents(notes')
    /\ tokens' = <<>>
    /\ previous_time' = 0
    /\ event_it' = 1
    /\ tok_pc' = "for"
    /\ UNCHANGED <<selfVars, ctorVars, velVars, ttdVars, unVars>>

\* the next event of the loop: dt = time - previous_time, fill the gap
TokEvent ==
    /\ tok_pc = "for"
    /\ event_it <= Len(note_events)
    /\ TtdEnter(note_events[event_it].time - previous_time)
    /\ tok_pc' = "ttd"
    /\ UNCHANGED <<notes, note_events, event_it, tokens, previous_time>>
    /\ UNCHANGED <<selfVars, ctorVars, velVars, unVars>>

\* tokens += time_tokens, the velocity token, the on/off token
TokAppend ==
    /\ tok_pc = "ttd"
    /\ ttd_pc = "return"
    /\ IF note_events[event_it].velocity_bin \in 0 .. (n_velocity_bins - 1)
       THEN /\ tokens' = tokens \o time_tokens \o EventTokens(note_events[event_it])
            /\ previous_time' = NextPreviousTime(note_events[event_it])
            /\ event_it' = event_it + 1
            /\ tok_pc' = "for"
       ELSE /\ tok_pc' = "KeyError"
            /\ UNCHANGED <<tokens, previous_time, event_it>>
    /\ UNCHANGED <<notes, note_events>>
    /\ UNCHANGED <<selfVars, ctorVars, velVars, ttdVars, unVars>>

\* the loop is over: return tokens
TokReturn ==
    /\ tok_pc = "for"
    /\ event_it > Len(note_events)
    /\ tok_pc' = "done"
    /\ UNCHANGED <<notes, note_events, event_it, tokens, previous_time>>
    /\ UNCHANGED <<selfVars, ctorVars, velVars, ttdVars, unVars>>

\* ----------------------------------------------------- fix_token_sequences
\* a repair that always reaches for VELOCITY_0
PrependOnDefaultVelocity(current_velocity_token, pitch, out) ==
    <<VelocityToken(0), PitchToOnToken(pitch)>> \o out

\* `tokens = [current_velocity_token, self.pitch_to_on_token[pitch]] + tokens`
PrependOn(current_velocity_token, pitch, out) ==
    <<current_velocity_token, PitchToOnToken(pitch)>> \o out

\* `pressed[self.token_to_pitch[token]] = velocity_bin` at a NOTE_ON
PressOn(pressed, token, current_velocity_token) ==
    [pressed EXCEPT ![TokenToPitch(token)] = TokenToVelocityBin(current_velocity_token)]

\* `tokens = tokens + [velocity_token, note_off_token]`
AppendOff(out, key, state) ==
    out \o <<VelocityBinToToken(state), PitchToOffToken(key)>>

\* the scan `for token in tokens`: it walks the list it was given (toks) while
\* the pairs are put in front of the rebound list (out)
RECURSIVE FixScan(_, _, _, _, _)
FixScan(toks, i, pressed, current_velocity_token, out) ==
    IF i > Len(toks) THEN [pressed |-> pressed, out |-> out]
    ELSE
        LET token == toks[i]
            cur == IF IsVelocity(token) THEN token ELSE current_velocity_token
            pressed1 == IF IsNoteOn(token) THEN PressOn(pressed, token, cur) ELSE pressed
            orphan == IsNoteOff(token) /\ pressed1[TokenToPitch(token)] = NotPressed
            out1 == IF orphan THEN PrependOn(cur, TokenToPitch(token), out) ELSE out
            pressed2 == IF IsNoteOff(token)
                        THEN [pressed1 EXCEPT ![TokenToPitch(token)] = NotPressed]
                        ELSE pressed1
        IN  FixScan(toks, i + 1, pressed2, cur, out1)

\* `for key, state in enumerate(pressed)`: the keys with state >= 0, ascending
RECURSIVE FixTail(_, _, _)
FixTail(pressed, keys, out) ==
    IF keys = {} THEN out
    ELSE LET key == CHOOSE k \in keys : \A j \in keys : k <= j
         IN  FixTail(pressed, keys \ {key}, AppendOff(out, key, pressed[key]))

FixTokenSequences(toks) ==
    LET scan == FixScan(toks, 1, [key \in 0 .. (PressedSize - 1) |-> NotPressed],
                        VelocityToken(0), toks)
    IN  FixTail(scan.pressed, {key \in 0 .. (PressedSize - 1) : scan.pressed[key] >= 0},
                scan.out)

\* -------------------------------------------------------------- untokenize
\* the `end` of a row that note_off_events has no row for
NaN == -1

\* the walk over the repaired tokens; status is the exception, if any
RECURSIVE UntokScan(_, _, _, _, _, _)
UntokScan(toks, i, current_time, current_velocity, ons, offs) ==
    IF i > Len(toks) THEN [status |-> "ok", on |-> ons, off |-> offs]
    ELSE
        LET token == toks[i]
            timeOk == IsTime(token) => token[2] \in 1 .. Len(time_vocab)
            velOk == IsVelocity(token) => ListIndexOk(TokenToVelocityBin(token), bin_to_velocity)
            time1 == IF IsTime(token) THEN current_time + time_vocab[token[2]] ELSE current_time
            vel1 == IF IsVelocity(token)
                    THEN ListGet(TokenToVelocityBin(token), bin_to_velocity)
                    ELSE current_velocity
            ons1 == IF IsNoteOn(token)
                    THEN Append(ons, [pitch |-> TokenToPitch(token), start |-> time1,
                                      velocity |-> vel1])
                    ELSE ons
            offs1 == IF IsNoteOff(token)
                     THEN Append(offs, [pitch |-> TokenToPitch(token), end |-> time1])
                     ELSE offs
        IN  IF ~timeOk THEN [status |-> "KeyError", on |-> ons, off |-> offs]
            ELSE IF ~velOk THEN [status |-> "IndexError", on |-> ons, off |-> offs]
            ELSE UntokScan(toks, i + 1, time1, vel1, ons1, offs1)

\* notes = note_on_events; notes["end"] = note_off_events["end"], row by row
PairNotes(on_rows, off_rows) ==
    [i \in 1 .. Len(on_rows) |->
        [pitch |-> on_rows[i].pitch, start |-> on_rows[i].start,
         velocity |-> on_rows[i].velocity,
         end |-> IF i <= Len(off_rows) THEN off_rows[i].end ELSE NaN]]

\* sort_values(by="pitch", kind="stable") of both lists, then the pairing
SortAndPair(ons, offs) == PairNotes(StableSort(ons, "pitch"), StableSort(offs, "pitch"))

\* the orders sort_values(by="start") may leave the rows in (not a stable sort)
RECURSIVE SortedOrders(_, _)
SortedOrders(frame, left) ==
    IF left = {} THEN {<<>>}
    ELSE UNION {{<<x>> \o p : p \in SortedOrders(frame, left \ {x})} :
                x \in {y \in left : \A z \in left : frame[y].start <= frame[z].start}}

\* untokenize up to the last sort: the repair, the walk, the pairing
Untokenized(toks) ==
    LET fx == FixTokenSequences(toks)
        scan == UntokScan(fx, 1, 0, 0, <<>>, <<>>)
    IN  IF scan.status # "ok"
        THEN [status |-> scan.status, fixed |-> fx, on |-> scan.on, off |-> scan.off,
              notes |-> <<>>]
        ELSE IF scan.on = <<>> \/ scan.off = <<>>
        THEN [status |-> "KeyError", fixed |-> fx, on |-> scan.on, off |-> scan.off,
              notes |-> <<>>]
        ELSE [status |-> "untokenized", fixed |-> fx,
              on |-> StableSort(scan.on, "pitch"), off |-> StableSort(scan.off, "pitch"),
              notes |-> SortAndPair(scan.on, scan.off)]

\* untokenize(tokens)
Untokenize ==
    /\ tok_pc \in {"given", "done"}
    /\ un_pc = "idle"
    /\ LET r == Untokenized(tokens)
       IN  /\ fixed' = r.fixed
           /\ note_on_events' = r.on
           /\ note_off_events' = r.off
           /\ un_pc' = r.status
           /\ \E order \in SortedOrders(r.notes, 1 .. Len(r.notes)) :
                 decoded' = [i \in 1 .. Len(order) |-> r.notes[order[i]]]
    /\ UNCHANGED refixed
    /\ UNCHANGED <<selfVars, ctorVars, velVars, ttdVars, tokVars>>

\* tokenize on its own
NextTok == TokStart \/ TokEvent \/ TtdBreak \/ TtdHalve \/ TtdEmit \/ TokAppend \/ TokReturn

SpecTok == InitTok /\ [][NextTok]_vars

\* untokenize(tokenize(notes))
NextRoundTrip == NextTok \/ Untokenize

SpecRoundTrip == InitTok /\ [][NextRoundTrip]_vars

\* ------------------------------------------- token lists from the vocabulary
FixPitches == {60, 61}
FixBins == {3}
FixAlphabet ==
    {Cls, TimeToken(1), VelocityToken(0), VelocityToken(1)}
        \cup {NoteOn(p) : p \in FixPitches} \cup {NoteOff(p) : p \in FixPitches}

InitFix ==
    /\ \E n \in FixBins : Constructed(EpsGrain, n)
    /\ IdleCtor /\ IdleVel /\ IdleTtd /\ IdleUn
    /\ notes = <<>> /\ note_events = <<>> /\ event_it = 0 /\ previous_time = 0
    /\ tokens \in SeqsUpTo(FixAlphabet, MaxTokens)
    /\ tok_pc = "given"

\* fix_token_sequences(tokens)
FixTokens ==
    /\ tok_pc = "given"
    /\ un_pc = "idle"
    /\ fixed' = FixTokenSequences(tokens)
    /\ un_pc' = "fixed"
    /\ UNCHANGED <<refixed, note_on_events, note_off_events, decoded>>
    /\ UNCHANGED <<selfVars, ctorVars, velVars, ttdVars, tokVars>>

\* fix_token_sequences on its own result
FixAgain ==
    /\ un_pc = "fixed"
    /\ refixed' = FixTokenSequences(fixed)
    /\ un_pc' = "refixed"
    /\ UNCHANGED <<fixed, note_on_events, note_off_events, decoded>>
    /\ UNCHANGED <<selfVars, ctorVars, velVars, ttdVars, tokVars>>

NextFix == FixTokens \/ FixAgain \/ Untokenize

SpecFix == InitFix /\ [][NextFix]_vars

\* ================================================================== claims
IsOnOff(token) == IsNoteOn(token) \/ IsNoteOff(token)
CountOf(list, token) == Cardinality({i \in 1 .. Len(list) : list[i] = token})

\* ---- C1
Balanced(list) ==
    \A p \in Pitches : CountOf(list, NoteOn(p)) = CountOf(list, NoteOff(p))

\* C1: after fix_token_sequences every pitch has as many NOTE_ON as NOTE_OFF
\* symbols, and the ON list and the OFF list of untokenize have the same length.
C1_RepairBalanced ==
    /\ un_pc \in {"fixed", "refixed"} => Balanced(fixed)
    /\ un_pc = "untokenized" => Len(note_on_events) = Len(note_off_events)

\* ---- C2
\* C2: repairing a repaired sequence changes nothing.
C2_RepairIdempotent == un_pc = "refixed" => refixed = fixed

\* ---- C10
\* pitch p is marked pressed when the scan of t reaches position j
PressedAt(t, j, p) ==
    \E i \in 1 .. (j - 1) :
        /\ t[i] = NoteOn(p)
        /\ \A k \in (i + 1) .. (j - 1) : t[k] # NoteOff(p)

\* the NOTE_OFF positions of t met while their pitch is not marked pressed
Orphans(t) == {j \in 1 .. Len(t) : IsNoteOff(t[j]) /\ ~PressedAt(t, j, t[j][2])}

\* the pitches still marked pressed when the scan of t ends
LeftPressed(t) == {p \in Pitches : PressedAt(t, Len(t) + 1, p)}

\* the velocity symbol in force at position j of t: the last one before j
VelocityInForce(t, j) ==
    IF \E i \in 1 .. (j - 1) : IsVelocity(t[i])
    THEN t[CHOOSE i \in 1 .. (j - 1) :
             IsVelocity(t[i]) /\ \A k \in (i + 1) .. (j - 1) : ~IsVelocity(t[k])]
    ELSE VelocityToken(0)

LastOn(t, p) == CHOOSE i \in 1 .. Len(t) : t[i] = NoteOn(p) /\ \A k \in (i + 1) .. Len(t) : t[k] # NoteOn(p)

\* the pair of P that belongs to orphan j: the later the orphan, the nearer the front
PrefixPair(t, j) == Cardinality({o \in Orphans(t) : o > j}) + 1
SuffixPair(t, p) == Cardinality({q \in LeftPressed(t) : q < p}) + 1

\* out = P ++ t ++ S, P one [velocity, NOTE_ON_p] pair per orphan, S one
\* [VELOCITY_b, NOTE_OFF_p] pair per pitch left pressed, b the bin recorded at its last ON
RepairFrame(t, out) ==
    LET np == 2 * Cardinality(Orphans(t))
        ns == 2 * Cardinality(LeftPressed(t))
    IN  /\ Len(out) = np + Len(t) + ns
        /\ SubSeq(out, np + 1, np + Len(t)) = t
        /\ \A j \in Orphans(t) :
              /\ IsVelocity(out[2 * PrefixPair(t, j) - 1])
              /\ out[2 * PrefixPair(t, j)] = NoteOn(t[j][2])
        /\ \A p \in LeftPressed(t) :
              /\ out[np + Len(t) + 2 * SuffixPair(t, p) - 1]
                    = VelocityToken(VelocityInForce(t, LastOn(t, p))[2])
              /\ out[np + Len(t) + 2 * SuffixPair(t, p)] = NoteOff(p)

\* C10 as stated: the velocity symbol of an orphan's pair is the velocity symbol
\* standing immediately before that NOTE_OFF in t.
C10_RepairShapeAdjacentVelocity ==
    un_pc = "fixed" =>
        /\ RepairFrame(tokens, fixed)
        /\ \A j \in Orphans(tokens) :
              /\ j > 1
              /\ IsVelocity(tokens[j - 1])
              /\ fixed[2 * PrefixPair(tokens, j) - 1] = tokens[j - 1]

\* C10 amended: fix_token_sequences(t) = P ++ t ++ S as in the claim, but the
\* velocity symbol of an orphan's pair is the last velocity symbol before that
\* NOTE_OFF in t, and VELOCITY_0 when there is none.
C10_RepairShape ==
    un_pc = "fixed" =>
        /\ RepairFrame(tokens, fixed)
        /\ \A j \in Orphans(tokens) :
              fixed[2 * PrefixPair(tokens, j) - 1] = VelocityInForce(tokens, j)

\* an orphan whose velocity symbol stands further back, and a pitch left pressed
C10_Witness ==
    /\ un_pc = "fixed"
    /\ LeftPressed(tokens) # {}
    /\ \E j \in Orphans(tokens) :
          /\ j > 1
          /\ ~IsVelocity(tokens[j - 1])
          /\ VelocityInForce(tokens, j) = VelocityToken(1)

\* ---- C3
\* token_to_dt summed over a list of time tokens
RECURSIVE SumOfSteps(_)
SumOfSteps(list) ==
    IF list = <<>> THEN 0 ELSE time_vocab[list[1][2]] + SumOfSteps(Tail(list))

\* C3: tokenize_time_distance returns time tokens that sum to within eps of dt,
\* and while it runs the current step is a rung of the ladder, never below eps,
\* so no lookup of an emitted step fails.
C3_TimeDistance ==
    /\ ttd_pc # "KeyError"
    /\ ttd_pc \in {"loop", "return"} =>
          current_step >= eps /\ DtToToken(time_vocab, current_step) # 0
    /\ ttd_pc = "return" => Abs(dt - SumOfSteps(time_tokens)) < eps

\* ---- C6
\* C6: quantize_frame puts every velocity in a bin of 0 .. n_velocity_bins - 1,
\* bin_to_velocity has an entry for each of these bins, and the decoded velocity
\* is within half a bin width of the velocity.
C6_VelocityQuantization ==
    /\ vel_pc # "IndexError"
    /\ vel_pc \in {"quantized", "decoded"} =>
          /\ velocity_bin \in 0 .. (n_velocity_bins - 1)
          /\ Len(bin_to_velocity) = n_velocity_bins
    /\ vel_pc = "decoded" =>
          2 * Abs(velocity_out - velocity)
              <= velocity_bin_edges[velocity_bin + 2] - velocity_bin_edges[velocity_bin + 1]

\* ---- C9
ValidConfig == 0 < eps /\ eps < TicksPerSecond /\ n_velocity_bins >= 1

\* C9: construction succeeds only for eps in (0,1) and n_velocity_bins >= 1.
C9_ConfigurationError == ctor_pc = "constructed" => ValidConfig

\* ---- C4
\* C4: untokenize(tokenize(notes)) returns one note record per input note, with
\* the same pitches, each as often as in the input (stated for at least one note).
C4_RoundTripPitches ==
    (tok_pc = "done" /\ un_pc # "idle" /\ notes # <<>>) =>
        /\ un_pc = "untokenized"
        /\ Len(decoded) = Len(notes)
        /\ \A p \in Pitches :
              Cardinality({i \in 1 .. Len(decoded) : decoded[i].pitch = p})
                  = Cardinality({i \in 1 .. Len(notes) : notes[i].pitch = p})

\* ---- C5
Bijections(n) == {f \in [1 .. n -> 1 .. n] : \A i, j \in 1 .. n : f[i] = f[j] => i = j}

\* C5: when the round trip returns as many notes as it was given, they can be
\* matched with the input notes, pitch by pitch, so that every start and every
\* end is less than eps from the input's.
C5_RoundTripTimes ==
    (tok_pc = "done" /\ un_pc = "untokenized" /\ Len(decoded) = Len(notes)) =>
        \E f \in Bijections(Len(notes)) :
            \A i \in 1 .. Len(notes) :
                /\ decoded[i].pitch = notes[f[i]].pitch
                /\ Abs(decoded[i].start - notes[f[i]].start) < eps
                /\ Abs(decoded[i].end - notes[f[i]].end) < eps

\* ---- C7
\* C7: in tokenize's tokens every on/off symbol stands right behind exactly one
\* velocity symbol, the time symbols of an event stand in one block right before
\* that velocity symbol, nothing else occurs, and the returned list has two
\* on/off symbols per note.
C7_TokenShape ==
    /\ tok_pc \in {"for", "ttd", "done"} =>
          \A i \in 1 .. Len(tokens) :
              /\ IsTime(tokens[i]) \/ IsVelocity(tokens[i]) \/ IsOnOff(tokens[i])
              /\ IsOnOff(tokens[i]) =>
                    i > 1 /\ IsVelocity(tokens[i - 1])
              /\ IsVelocity(tokens[i]) =>
                    i < Len(tokens) /\ IsOnOff(tokens[i + 1])
              /\ IsTime(tokens[i]) =>
                    i < Len(tokens) /\ (IsTime(tokens[i + 1]) \/ IsVelocity(tokens[i + 1]))
    /\ tok_pc = "done" =>
          Cardinality({i \in 1 .. Len(tokens) : IsOnOff(tokens[i])}) = 2 * Len(notes)

\* two notes, and an event that needed two time symbols in a row
C7_Witness ==
    /\ tok_pc = "done"
    /\ Len(notes) = 2
    /\ \E i \in 1 .. (Len(tokens) - 1) : IsTime(tokens[i]) /\ IsTime(tokens[i + 1])

\* ---- C8
\* the 2 * Len(notes) events by number: 2m - 1 the ON of note m, 2m its OFF
EventNote(u) == (u + 1) \div 2
EventKind(u) == IF u % 2 = 1 THEN "NOTE_ON" ELSE "NOTE_OFF"
EventAt(u) == IF u % 2 = 1 THEN notes[EventNote(u)].start ELSE notes[EventNote(u)].end

\* event u comes before event w: earlier; or together, the OFF before the ON;
\* or together and of one kind, the note that is earlier in the input
ComesBefore(u, w) ==
    \/ EventAt(u) < EventAt(w)
    \/ /\ EventAt(u) = EventAt(w)
       /\ \/ EventKind(u) = "NOTE_OFF" /\ EventKind(w) = "NOTE_ON"
          \/ EventKind(u) = EventKind(w) /\ EventNote(u) < EventNote(w)

EventPlace(u) == Cardinality({w \in 1 .. (2 * Len(notes)) : ComesBefore(w, u)}) + 1

OnOffTokens == SelectSeq(tokens, IsOnOff)

\* C8: the events are in ascending time, an OFF before an ON of the same time,
\* events of one time and one kind in the order of their notes; and the on/off
\* symbols of the returned tokens stand in that order.
C8_EventOrder ==
    /\ tok_pc \in {"for", "ttd", "done"} =>
          /\ Len(note_events) = 2 * Len(notes)
          /\ \A u \in 1 .. (2 * Len(notes)) :
                /\ note_events[EventPlace(u)].time = EventAt(u)
                /\ note_events[EventPlace(u)].event = EventKind(u)
                /\ note_events[EventPlace(u)].pitch = notes[EventNote(u)].pitch
                /\ note_events[EventPlace(u)].velocity_bin = notes[EventNote(u)].velocity_bin
    /\ tok_pc = "done" =>
          /\ Len(OnOffTokens) = 2 * Len(notes)
          /\ \A u \in 1 .. (2 * Len(notes)) :
                OnOffTokens[EventPlace(u)]
                    = <<EventKind(u), notes[EventNote(u)].pitch>>

\* a note of one pitch ends where a note of another pitch starts, and two ONs coincide
C8_Witness ==
    /\ tok_pc = "done"
    /\ Len(notes) = 2
    /\ notes[1].pitch # notes[2].pitch
    /\ notes[1].start < notes[1].end
    /\ notes[1].end = notes[2].start
    /\ notes[2].start < notes[2].end

====
